---------------------------- MODULE Spec2Model ----------------------------
(***************************************************************************)
(* Model of the playback server of mediamtx (internal/playback):           *)
(*   - the HLS transcode job coordinator of Server.handleHLS: the registry *)
(*     activeHLSTokens under activeHLSLock, the ffmpegSem semaphore, the   *)
(*     background task that runs ffmpeg, and the waiters on doneChan;      *)
(*   - the direct (fmp4/mp4) path of Server.onGet with writerWrapper:      *)
(*     request validation, the choice of the format and seekAndMux;        *)
(*   - the functions computeToken and servePlaylist and the file selector  *)
(*     of handleHLS, each applied to inputs drawn from bounded sets.       *)
(* Strings are sequences of small integers (one integer per character).    *)
(***************************************************************************)
EXTENDS Integers, Sequences, FiniteSets, TLC

\* ------------------------------------------------------------------ bounds

\* Number of HLS requests (one handler goroutine each) in the coordinator model.
NReq == 3

Reqs == 1..NReq

\* Number of requests whose client disconnects while the handler is blocked.
MaxCancels == 1

\* Number of background tasks in the semaphore model.
NJobs == 18

\* Number of segments of a direct request, and of chunks counted as written.
MaxSegs == 3

MaxChunks == 2

\* Length of the text of the duration parameter.
MaxRawLen == 2

\* Largest duration (nanoseconds) of the token model.
MaxDuration == 2

\* Length of the manifest text, and number of components of a file selector.
MaxManifestLen == 4

MaxSelectorLen == 3

\* Number of HLS requests in the DELETE /hls model.
NDelReq == 2

\* The requests that clients send. Client "1" asks for path "1c" and client "11"
\* for path "c" (character 1 stands for '1', character 2 for 'c'), both with the
\* same start time (seconds, nanoseconds) and duration (nanoseconds).
Params ==
    { [client |-> <<1>>, path |-> <<1, 2>>, start |-> [sec |-> 0, nsec |-> 0], duration |-> 1],
      [client |-> <<1, 1>>, path |-> <<2>>, start |-> [sec |-> 0, nsec |-> 0], duration |-> 1] }

VARIABLES
    pc,              \* position of each request handler in handleHLS
    par,             \* parameters of each request: client, path, start, duration
    found,           \* result of the registry lookup `processInfo, exists := clientMap[token]`
    role,            \* "none" | "owner" | "waiter"
    job,             \* the HLSProcessInfo a request holds (named by its owner request), 0: none
    resp,            \* the HTTP response written by the handler
    cancelled,       \* ctx.Request.Context() is done
    task,            \* position of the background goroutine of each job
    proc,            \* the ffmpeg subprocess of each job
    pid,             \* HLSProcessInfo.pid
    errChan,         \* the owner's buffered channel: "none" | "empty" | "nil" | "err"
    doneChan,        \* HLSProcessInfo.doneChan: "none" | "open" | "closed"
    ffmpegSem,       \* number of slots held in the semaphore channel
    activeHLSLock,   \* 0: free, r: held by handler r, NReq + r: held by the task of job r
    activeHLSTokens, \* clientIP -> token -> job
    hlsDirs,         \* tokens whose output directory exists
    playlist,        \* token -> state of index.m3u8 in the token's directory
    pool,            \* semaphore model: number of background tasks at each position
    direct,          \* direct path model: one GET request in onGet and seekAndMux
    call             \* one call of a function of the package: its inputs and its result

reqVars == <<pc, par, found, role, job, resp, cancelled>>
jobVars == <<task, proc, pid, errChan, doneChan>>
sharedVars == <<ffmpegSem, activeHLSLock, activeHLSTokens>>
fsVars == <<hlsDirs, playlist>>
vars == <<pc, par, found, role, job, resp, cancelled, task, proc, pid,
          errChan, doneChan, ffmpegSem, activeHLSLock, activeHLSTokens, hlsDirs, playlist,
          pool, direct, call>>

\* ------------------------------------------------------------ pure functions

\* start.Format(time.RFC3339): second precision, the nanoseconds are not printed.
FormatRFC3339(t) == <<100 + t.sec>>

\* duration.String(): prints the full nanosecond value.
DurationString(d) == <<200 + d>>

\* sha256 + hex of a byte string, modelled as injective.
Sha256Hex(bytes) == bytes

\* The four h.Write calls feed the hash the plain concatenation of the fields.
computeToken(clientID, pathName, start, duration) ==
    Sha256Hex(clientID \o pathName \o FormatRFC3339(start) \o DurationString(duration))

NoParams == [client |-> <<>>, path |-> <<>>, start |-> [sec |-> 0, nsec |-> 0], duration |-> 0]

TokenOfParams(p) == computeToken(p.client, p.path, p.start, p.duration)

Tokens == {TokenOfParams(p) : p \in Params}

token(r) == TokenOfParams(par[r])

\* pathConf.RecordFormat of the configured paths.
RecordFormat(pathName) == IF pathName = <<2>> THEN "mpegts" ELSE "fmp4"

\* index.m3u8: by = 0 when the file does not exist, else the job that wrote it;
\* complete when ffmpeg finished the playlist.
NoPlaylist == [by |-> 0, complete |-> FALSE]

NoResp == [status |-> 0, by |-> 0, complete |-> FALSE]

ErrResp(status) == [status |-> status, by |-> 0, complete |-> FALSE]

\* os.ReadFile(hlsPlaylist) followed by servePlaylist, or writeError when the read fails.
ServeFrom(file) ==
    IF file.by = 0 THEN ErrResp(500)
    ELSE [status |-> 200, by |-> file.by, complete |-> file.complete]

\* ------------------------------------------------------------ registry, lock, semaphore

EmptyMap == [t \in {} |-> 0]

\* A lock that excludes nobody.
LockNotExclusive == TRUE

\* activeHLSLock.Lock() can proceed.
LockFree == activeHLSLock = 0

\* `processInfo, exists := clientMap[token]`
Exists(clientMap, t) == t \in DOMAIN clientMap

\* clientMap[token] = processInfo
Insert(reg, c, t, j) == [reg EXCEPT ![c] = [x \in DOMAIN reg[c] \cup {t} |-> IF x = t THEN j ELSE reg[c][x]]]

\* An eviction that leaves the client's map in the registry when it is empty.
EvictKeepsClientMap(reg, c, t) ==
    IF c \notin DOMAIN reg THEN reg
    ELSE [reg EXCEPT ![c] = [x \in DOMAIN reg[c] \ {t} |-> reg[c][x]]]

\* delete(cm, token); if len(cm) == 0 { delete(s.activeHLSTokens, clientIP) }
Evict(reg, c, t) ==
    IF c \notin DOMAIN reg THEN reg
    ELSE LET cm == [x \in DOMAIN reg[c] \ {t} |-> reg[c][x]]
         IN  IF DOMAIN cm = {}
             THEN [x \in DOMAIN reg \ {c} |-> reg[x]]
             ELSE [reg EXCEPT ![c] = cm]

\* capacity of `make(chan struct{}, 16)`
ffmpegSemCap == 16

\* A semaphore that never blocks, as an unbuffered-capacity mistake would make it.
SemNeverBlocks(held) == TRUE

\* `ffmpegSem <- struct{}{}` can proceed.
SemCanAcquire(held) == held < ffmpegSemCap

\* ------------------------------------------------------------------ Init

NoPool == [waiting |-> 0, starting |-> 0, running |-> 0, exited |-> 0, ended |-> 0]

NoDirect ==
    [pc |-> "none", format |-> "", recordFormat |-> "fmp4", nsegs |-> 0, seg |-> 0,
     written |-> FALSE, bytes |-> 0, err |-> "none", status |-> 0, errText |-> FALSE,
     logged |-> FALSE, nInit |-> 0, nFlush |-> 0, muxed |-> 0,
     auth |-> FALSE, startOk |-> FALSE, durRaw |-> <<>>, duration |-> 0, confOk |-> FALSE,
     findRes |-> "none", findCalled |-> FALSE, cont |-> <<>>, opened |-> 0, initSeg |-> 0,
     muxOk |-> FALSE]

HLSInit ==
    /\ pc = [r \in Reqs |-> "idle"]
    /\ par = [r \in Reqs |-> NoParams]
    /\ found = [r \in Reqs |-> FALSE]
    /\ role = [r \in Reqs |-> "none"]
    /\ job = [r \in Reqs |-> 0]
    /\ resp = [r \in Reqs |-> NoResp]
    /\ cancelled = [r \in Reqs |-> FALSE]
    /\ task = [r \in Reqs |-> "none"]
    /\ proc = [r \in Reqs |-> "none"]
    /\ pid = [r \in Reqs |-> 0]
    /\ errChan = [r \in Reqs |-> "none"]
    /\ doneChan = [r \in Reqs |-> "none"]
    /\ ffmpegSem = 0
    /\ activeHLSLock = 0
    /\ activeHLSTokens = [c \in {} |-> EmptyMap]
    /\ hlsDirs = {}
    /\ playlist = [t \in Tokens |-> NoPlaylist]

\* No function call is being looked at.
NoCall == [fn |-> "none"]

Init ==
    /\ HLSInit
    /\ pool = NoPool
    /\ direct = NoDirect
    /\ call = NoCall

\* ------------------------------------------------------------ request handlers

\* onGet accepted the request and called handleHLS without a file selector
\* (requests are numbered in their order of arrival); then
\* s.activeHLSLock.Lock(); the client's map is created when missing;
\* processInfo, exists := clientMap[token]
LockRegistry(r) ==
    /\ pc[r] = "idle"
    /\ IF r = 1 THEN TRUE ELSE pc[r - 1] # "idle"
    /\ LockFree
    /\ \E p \in Params :
         /\ par' = [par EXCEPT ![r] = p]
         /\ activeHLSTokens' =
              IF p.client \in DOMAIN activeHLSTokens THEN activeHLSTokens
              ELSE [c \in DOMAIN activeHLSTokens \cup {p.client} |->
                      IF c = p.client THEN EmptyMap ELSE activeHLSTokens[c]]
         /\ found' = [found EXCEPT ![r] =
                        /\ p.client \in DOMAIN activeHLSTokens
                        /\ Exists(activeHLSTokens[p.client], TokenOfParams(p))]
    /\ activeHLSLock' = r
    /\ pc' = [pc EXCEPT ![r] = "branch"]
    /\ UNCHANGED <<role, job, resp, cancelled, ffmpegSem>>
    /\ UNCHANGED <<jobVars, fsVars>>

\* A join that waits on the existing job without unlocking first.
JoinKeepsLock(r) ==
    /\ pc[r] = "branch"
    /\ found[r]
    /\ role' = [role EXCEPT ![r] = "waiter"]
    /\ job' = [job EXCEPT ![r] = activeHLSTokens[par[r].client][token(r)]]
    /\ pc' = [pc EXCEPT ![r] = "wait"]
    /\ UNCHANGED <<par, found, resp, cancelled, sharedVars>>
    /\ UNCHANGED <<jobVars, fsVars>>

\* if exists: unlock and wait on the existing job.
Join(r) ==
    /\ pc[r] = "branch"
    /\ found[r]
    /\ role' = [role EXCEPT ![r] = "waiter"]
    /\ job' = [job EXCEPT ![r] = activeHLSTokens[par[r].client][token(r)]]
    /\ activeHLSLock' = 0
    /\ pc' = [pc EXCEPT ![r] = "wait"]
    /\ UNCHANGED <<par, found, resp, cancelled, ffmpegSem, activeHLSTokens>>
    /\ UNCHANGED <<jobVars, fsVars>>

\* else: create the entry with a fresh doneChan, insert it, unlock.
Register(r) ==
    /\ pc[r] = "branch"
    /\ ~found[r]
    /\ role' = [role EXCEPT ![r] = "owner"]
    /\ job' = [job EXCEPT ![r] = r]
    /\ doneChan' = [doneChan EXCEPT ![r] = "open"]
    /\ activeHLSTokens' = Insert(activeHLSTokens, par[r].client, token(r), r)
    /\ activeHLSLock' = 0
    /\ pc' = [pc EXCEPT ![r] = "setup"]
    /\ UNCHANGED <<par, found, resp, cancelled, ffmpegSem>>
    /\ UNCHANGED <<task, proc, pid, errChan, fsVars>>

\* case <-processInfo.doneChan
WaiterObserveDone(r) ==
    /\ pc[r] = "wait"
    /\ doneChan[job[r]] = "closed"
    /\ pc' = [pc EXCEPT ![r] = "read"]
    /\ UNCHANGED <<par, found, role, job, resp, cancelled>>
    /\ UNCHANGED <<jobVars, sharedVars, fsVars>>

\* os.ReadFile(hlsPlaylist) and servePlaylist in the waiter's branch.
WaiterServe(r) ==
    /\ pc[r] = "read"
    /\ role[r] = "waiter"
    /\ resp' = [resp EXCEPT ![r] = ServeFrom(playlist[token(r)])]
    /\ pc' = [pc EXCEPT ![r] = "done"]
    /\ UNCHANGED <<par, found, role, job, cancelled>>
    /\ UNCHANGED <<jobVars, sharedVars, fsVars>>

\* A cancelled waiter that takes its job down with it: it evicts the entry.
WaiterDetachEvicts(r) ==
    /\ pc[r] = "wait"
    /\ cancelled[r]
    /\ LockFree
    /\ activeHLSTokens' = Evict(activeHLSTokens, par[r].client, token(r))
    /\ pc' = [pc EXCEPT ![r] = "done"]
    /\ UNCHANGED <<par, found, role, job, resp, cancelled, ffmpegSem, activeHLSLock>>
    /\ UNCHANGED <<jobVars, fsVars>>

\* case <-ctx.Request.Context().Done(): return
WaiterDetach(r) ==
    /\ pc[r] = "wait"
    /\ cancelled[r]
    /\ pc' = [pc EXCEPT ![r] = "done"]
    /\ UNCHANGED <<par, found, role, job, resp, cancelled>>
    /\ UNCHANGED <<jobVars, sharedVars, fsVars>>

\* The client of a blocked request disconnects.
Cancel(r) ==
    /\ pc[r] \in {"wait", "recv"}
    /\ ~cancelled[r]
    /\ Cardinality({x \in Reqs : cancelled[x]}) < MaxCancels
    /\ cancelled' = [cancelled EXCEPT ![r] = TRUE]
    /\ UNCHANGED <<pc, par, found, role, job, resp>>
    /\ UNCHANGED <<jobVars, sharedVars, fsVars>>

\* errChan := make(chan error, 1); cmdCtx with its 2 minute timeout; go func().
Spawned(r) ==
    /\ errChan' = [errChan EXCEPT ![r] = "empty"]
    /\ task' = [task EXCEPT ![r] = "sem"]
    /\ pc' = [pc EXCEPT ![r] = "recv"]

\* A setup step failed: writeError(500) and return, nothing else.
SetupFailed(r) ==
    /\ resp' = [resp EXCEPT ![r] = ErrResp(500)]
    /\ pc' = [pc EXCEPT ![r] = "done"]
    /\ UNCHANGED <<task, errChan>>

\* os.MkdirAll(hlsDir), then os.Create of list.txt (MPEG-TS: the list is written
\* at once and the task is spawned) or of trimmed.mp4 (fMP4: seekAndMux follows).
\* MkdirAll or Create may fail.
Setup(r) ==
    /\ pc[r] = "setup"
    /\ \/ /\ hlsDirs' = hlsDirs \cup {token(r)}
          /\ IF RecordFormat(par[r].path) = "mpegts"
             THEN Spawned(r) /\ UNCHANGED resp
             ELSE /\ pc' = [pc EXCEPT ![r] = "premux"]
                  /\ UNCHANGED <<resp, task, errChan>>
       \/ /\ hlsDirs' = hlsDirs \cup {token(r)}
          /\ SetupFailed(r)
       \/ /\ UNCHANGED hlsDirs
          /\ SetupFailed(r)
    /\ UNCHANGED <<par, found, role, job, cancelled, playlist>>
    /\ UNCHANGED <<proc, pid, doneChan, sharedVars>>

\* seekAndMux has written trimmed.mp4; f.Close(); on success the task is spawned.
PreMux(r) ==
    /\ pc[r] = "premux"
    /\ \/ Spawned(r) /\ UNCHANGED resp
       \/ SetupFailed(r)
    /\ UNCHANGED <<par, found, role, job, cancelled>>
    /\ UNCHANGED <<proc, pid, doneChan, sharedVars, fsVars>>

\* if err := <-errChan; err != nil { writeError(500) }
OwnerRecv(r) ==
    /\ pc[r] = "recv"
    /\ errChan[r] \in {"nil", "err"}
    /\ errChan' = [errChan EXCEPT ![r] = "empty"]
    /\ IF errChan[r] = "err"
       THEN /\ resp' = [resp EXCEPT ![r] = ErrResp(500)]
            /\ pc' = [pc EXCEPT ![r] = "done"]
       ELSE /\ pc' = [pc EXCEPT ![r] = "read"]
            /\ UNCHANGED resp
    /\ UNCHANGED <<par, found, role, job, cancelled>>
    /\ UNCHANGED <<task, proc, pid, doneChan, sharedVars, fsVars>>

\* os.ReadFile(hlsPlaylist) and servePlaylist at the end of handleHLS.
OwnerServe(r) ==
    /\ pc[r] = "read"
    /\ role[r] = "owner"
    /\ resp' = [resp EXCEPT ![r] = ServeFrom(playlist[token(r)])]
    /\ pc' = [pc EXCEPT ![r] = "done"]
    /\ UNCHANGED <<par, found, role, job, cancelled>>
    /\ UNCHANGED <<jobVars, sharedVars, fsVars>>

\* ------------------------------------------------------------ background task

\* ffmpegSem <- struct{}{}
SemAcquire(j) ==
    /\ task[j] = "sem"
    /\ SemCanAcquire(ffmpegSem)
    /\ ffmpegSem' = ffmpegSem + 1
    /\ task' = [task EXCEPT ![j] = "start"]
    /\ UNCHANGED <<proc, pid, errChan, doneChan, activeHLSLock, activeHLSTokens>>
    /\ UNCHANGED <<reqVars, fsVars>>

\* A cmd.Start() whose failure path returns without releasing the slot.
CmdStartLeaksSlot(j) ==
    /\ task[j] = "start"
    /\ \/ /\ proc' = [proc EXCEPT ![j] = "running"]
          /\ task' = [task EXCEPT ![j] = "setpid"]
          /\ UNCHANGED errChan
       \/ /\ proc' = [proc EXCEPT ![j] = "startfail"]
          /\ errChan' = [errChan EXCEPT ![j] = "err"]
          /\ task' = [task EXCEPT ![j] = "end"]
    /\ UNCHANGED <<pid, doneChan, sharedVars>>
    /\ UNCHANGED <<reqVars, fsVars>>

\* cmd.Start(): fails when ffmpeg cannot be executed or when cmdCtx is already
\* done (its timeout ran out while the task waited for a slot); on failure the
\* error is sent and the task returns (releasing its slot).
CmdStart(j) ==
    /\ task[j] = "start"
    /\ \/ /\ proc' = [proc EXCEPT ![j] = "running"]
          /\ task' = [task EXCEPT ![j] = "setpid"]
          /\ UNCHANGED <<errChan, ffmpegSem>>
       \/ /\ proc' = [proc EXCEPT ![j] = "startfail"]
          /\ errChan' = [errChan EXCEPT ![j] = "err"]
          /\ ffmpegSem' = ffmpegSem - 1
          /\ task' = [task EXCEPT ![j] = "end"]
    /\ UNCHANGED <<pid, doneChan, activeHLSLock, activeHLSTokens>>
    /\ UNCHANGED <<reqVars, fsVars>>

\* s.activeHLSLock.Lock(); processInfo.pid = cmd.Process.Pid
TrackPid(j) ==
    /\ task[j] = "setpid"
    /\ LockFree
    /\ activeHLSLock' = NReq + j
    /\ pid' = [pid EXCEPT ![j] = j]
    /\ task' = [task EXCEPT ![j] = "pidunlock"]
    /\ UNCHANGED <<proc, errChan, doneChan, ffmpegSem, activeHLSTokens>>
    /\ UNCHANGED <<reqVars, fsVars>>

\* s.activeHLSLock.Unlock() after the pid was stored
TrackPidUnlock(j) ==
    /\ task[j] = "pidunlock"
    /\ activeHLSLock' = 0
    /\ task' = [task EXCEPT ![j] = "wait"]
    /\ UNCHANGED <<proc, pid, errChan, doneChan, ffmpegSem, activeHLSTokens>>
    /\ UNCHANGED <<reqVars, fsVars>>

\* A cleanup that locks but leaves the entry in the registry.
CleanupKeepsEntry(j) ==
    /\ task[j] = "wait"
    /\ proc[j] \in {"ok", "failed", "killed"}
    /\ LockFree
    /\ activeHLSLock' = NReq + j
    /\ task' = [task EXCEPT ![j] = "evictunlock"]
    /\ UNCHANGED <<proc, pid, errChan, doneChan, ffmpegSem, activeHLSTokens>>
    /\ UNCHANGED <<reqVars, fsVars>>

\* err := cmd.Wait() has returned (the subprocess has exited); then
\* Lock; delete(cm, token); delete the client's map when empty
Cleanup(j) ==
    /\ task[j] = "wait"
    /\ proc[j] \in {"ok", "failed", "killed"}
    /\ LockFree
    /\ activeHLSLock' = NReq + j
    /\ activeHLSTokens' = Evict(activeHLSTokens, par[j].client, token(j))
    /\ task' = [task EXCEPT ![j] = "evictunlock"]
    /\ UNCHANGED <<proc, pid, errChan, doneChan, ffmpegSem>>
    /\ UNCHANGED <<reqVars, fsVars>>

\* s.activeHLSLock.Unlock() after the eviction
CleanupUnlock(j) ==
    /\ task[j] = "evictunlock"
    /\ activeHLSLock' = 0
    /\ task' = [task EXCEPT ![j] = "close"]
    /\ UNCHANGED <<proc, pid, errChan, doneChan, ffmpegSem, activeHLSTokens>>
    /\ UNCHANGED <<reqVars, fsVars>>

\* close(processInfo.doneChan)
CloseDone(j) ==
    /\ task[j] = "close"
    /\ doneChan' = [doneChan EXCEPT ![j] = "closed"]
    /\ task' = [task EXCEPT ![j] = "send"]
    /\ UNCHANGED <<proc, pid, errChan, sharedVars>>
    /\ UNCHANGED <<reqVars, fsVars>>

\* A task end that releases the slot but sends nothing to the owner.
SendErrDropsOutcome(j) ==
    /\ task[j] = "send"
    /\ ffmpegSem' = ffmpegSem - 1
    /\ task' = [task EXCEPT ![j] = "end"]
    /\ UNCHANGED <<proc, pid, errChan, doneChan, activeHLSLock, activeHLSTokens>>
    /\ UNCHANGED <<reqVars, fsVars>>

\* errChan <- err; the task returns and its deferred function releases the slot.
SendErr(j) ==
    /\ task[j] = "send"
    /\ errChan' = [errChan EXCEPT ![j] = IF proc[j] = "ok" THEN "nil" ELSE "err"]
    /\ ffmpegSem' = ffmpegSem - 1
    /\ task' = [task EXCEPT ![j] = "end"]
    /\ UNCHANGED <<proc, pid, doneChan, activeHLSLock, activeHLSTokens>>
    /\ UNCHANGED <<reqVars, fsVars>>

\* ------------------------------------------------------------ subprocess and clock

\* ffmpeg replaces index.m3u8 after each segment it has written (it can do so
\* only while its output directory exists).
FfmpegWrite(j) ==
    /\ proc[j] = "running"
    /\ token(j) \in hlsDirs
    /\ playlist[token(j)] # [by |-> j, complete |-> FALSE]
    /\ playlist' = [playlist EXCEPT ![token(j)] = [by |-> j, complete |-> FALSE]]
    /\ UNCHANGED <<hlsDirs, reqVars, jobVars, sharedVars>>

\* ffmpeg exits: with status 0 after finishing the playlist, or with an error.
FfmpegExit(j) ==
    /\ proc[j] = "running"
    /\ \/ /\ token(j) \in hlsDirs
          /\ proc' = [proc EXCEPT ![j] = "ok"]
          /\ playlist' = [playlist EXCEPT ![token(j)] = [by |-> j, complete |-> TRUE]]
       \/ /\ proc' = [proc EXCEPT ![j] = "failed"]
          /\ UNCHANGED playlist
    /\ UNCHANGED <<task, pid, errChan, doneChan>>
    /\ UNCHANGED <<hlsDirs, reqVars, sharedVars>>

\* The 2 minute timeout of cmdCtx (a child of context.Background()) expires
\* while ffmpeg runs: exec.CommandContext kills the subprocess.
DeadlineKill(j) ==
    /\ proc[j] = "running"
    /\ proc' = [proc EXCEPT ![j] = "killed"]
    /\ UNCHANGED <<task, pid, errChan, doneChan>>
    /\ UNCHANGED <<reqVars, sharedVars, fsVars>>

\* ------------------------------------------------------------------ Next

HLSNext ==
    \E r \in Reqs :
        \/ LockRegistry(r)
        \/ Join(r)
        \/ Register(r)
        \/ WaiterObserveDone(r)
        \/ WaiterServe(r)
        \/ WaiterDetach(r)
        \/ Cancel(r)
        \/ Setup(r)
        \/ PreMux(r)
        \/ OwnerRecv(r)
        \/ OwnerServe(r)
        \/ SemAcquire(r)
        \/ CmdStart(r)
        \/ TrackPid(r)
        \/ TrackPidUnlock(r)
        \/ Cleanup(r)
        \/ CleanupUnlock(r)
        \/ CloseDone(r)
        \/ SendErr(r)
        \/ FfmpegWrite(r)
        \/ FfmpegExit(r)
        \/ DeadlineKill(r)

Next == HLSNext /\ UNCHANGED <<pool, direct, call>>

Spec == Init /\ [][Next]_vars


\* ------------------------------------------------------------ semaphore model
\* The background tasks of many jobs at once. The tasks run the same code and
\* differ in nothing the semaphore sees, so the model counts the tasks at each
\* position: waiting for a slot, holding a slot before cmd.Start, with a started
\* subprocess that has not exited, with an exited subprocess before the task
\* returns, and returned.

mainVars == <<reqVars, jobVars, activeHLSLock, activeHLSTokens, fsVars, call>>

PoolTotal == pool.waiting + pool.starting + pool.running + pool.exited + pool.ended

\* go func() of one more job
PoolSpawn ==
    /\ PoolTotal < NJobs
    /\ pool' = [pool EXCEPT !.waiting = @ + 1]
    /\ UNCHANGED <<ffmpegSem, mainVars, direct>>

\* ffmpegSem <- struct{}{}
PoolSemAcquire ==
    /\ pool.waiting > 0
    /\ SemCanAcquire(ffmpegSem)
    /\ ffmpegSem' = ffmpegSem + 1
    /\ pool' = [pool EXCEPT !.waiting = @ - 1, !.starting = @ + 1]
    /\ UNCHANGED <<mainVars, direct>>

\* cmd.Start(): the subprocess runs, or the task sends the error and returns,
\* releasing its slot.
PoolCmdStart ==
    /\ pool.starting > 0
    /\ \/ /\ pool' = [pool EXCEPT !.starting = @ - 1, !.running = @ + 1]
          /\ UNCHANGED ffmpegSem
       \/ /\ pool' = [pool EXCEPT !.starting = @ - 1, !.ended = @ + 1]
          /\ ffmpegSem' = ffmpegSem - 1
    /\ UNCHANGED <<mainVars, direct>>

\* The subprocess exits or is killed at the deadline.
PoolExit ==
    /\ pool.running > 0
    /\ pool' = [pool EXCEPT !.running = @ - 1, !.exited = @ + 1]
    /\ UNCHANGED <<ffmpegSem, mainVars, direct>>

\* cmd.Wait() has returned; cleanup, close, send; the task returns and its
\* deferred function releases the slot.
PoolReturn ==
    /\ pool.exited > 0
    /\ pool' = [pool EXCEPT !.exited = @ - 1, !.ended = @ + 1]
    /\ ffmpegSem' = ffmpegSem - 1
    /\ UNCHANGED <<mainVars, direct>>

SemNext ==
    \/ PoolSpawn
    \/ PoolSemAcquire
    \/ PoolCmdStart
    \/ PoolExit
    \/ PoolReturn

SemSpec == Init /\ [][SemNext]_vars

\* ------------------------------------------------------------ direct path model
\* One GET request in Server.onGet: authentication, parsing of start and
\* duration, path configuration, segment lookup, choice of the format, then
\* seekAndMux and writerWrapper.Write for the direct formats. The muxer calls
\* Write while it muxes parts and flushes. The duration text is a sequence of
\* characters; durations are counted in seconds.

Formats == {"", "fmp4", "mp4", "hls", "xyz"}

RecordFormats == {"fmp4", "mpegts"}

DurChars == {"-", "0", "1", "s"}

DurationRaws == UNION {[1..n -> DurChars] : n \in 0..MaxRawLen}

\* The text is a non-empty run of decimal digits.
IsDigits(str) == Len(str) > 0 /\ \A i \in 1..Len(str) : str[i] \in {"0", "1"}

RECURSIVE DigitsValue(_)
DigitsValue(str) ==
    IF str = <<>> THEN 0
    ELSE 10 * DigitsValue(SubSeq(str, 1, Len(str) - 1))
         + (IF str[Len(str)] = "1" THEN 1 ELSE 0)

\* The text without its leading minus sign.
Unsigned(str) == IF Len(str) > 0 /\ str[1] = "-" THEN Tail(str) ELSE str

Sign(str) == IF Len(str) > 0 /\ str[1] = "-" THEN -1 ELSE 1

\* strconv.ParseFloat(raw, 64): an optional sign and digits.
ParseFloat(raw) ==
    IF IsDigits(Unsigned(raw))
    THEN [ok |-> TRUE, v |-> Sign(raw) * DigitsValue(Unsigned(raw))]
    ELSE [ok |-> FALSE, v |-> 0]

\* time.ParseDuration(raw): an optional sign, digits and the unit "s".
ParseGoDuration(raw) ==
    LET u == Unsigned(raw)
    IN  IF Len(u) >= 2 /\ u[Len(u)] = "s" /\ IsDigits(SubSeq(u, 1, Len(u) - 1))
        THEN [ok |-> TRUE, v |-> Sign(raw) * DigitsValue(SubSeq(u, 1, Len(u) - 1))]
        ELSE [ok |-> FALSE, v |-> 0]

\* parseDuration: a number of seconds if ParseFloat accepts the text, else
\* whatever time.ParseDuration makes of it. The sign is not looked at.
parseDuration(raw) ==
    IF ParseFloat(raw).ok THEN [ok |-> TRUE, d |-> ParseFloat(raw).v]
    ELSE [ok |-> ParseGoDuration(raw).ok, d |-> ParseGoDuration(raw).v]

\* What onGet does with an error of seekAndMux: nothing for a *net.OpError;
\* writeError (which logs and writes status and text) when nothing was written,
\* with 404 for ErrNoSegmentsFound and 400 otherwise; else a log line only.
OnGetErrorAlwaysResponds(err, written) ==
    IF err = "net" THEN [status |-> 0, errText |-> FALSE, logged |-> FALSE]
    ELSE [status |-> IF err = "nosegments" THEN 404 ELSE 400, errText |-> TRUE, logged |-> TRUE]

OnGetError(err, written) ==
    IF err = "net" THEN [status |-> 0, errText |-> FALSE, logged |-> FALSE]
    ELSE IF ~written
         THEN [status |-> IF err = "nosegments" THEN 404 ELSE 400,
               errText |-> TRUE, logged |-> TRUE]
         ELSE [status |-> 0, errText |-> FALSE, logged |-> TRUE]

\* The continuity verdicts of the stored segments: verdict i is the result of
\* segmentFMP4CanBeConcatenated for segment i when the segments before it were
\* muxed (the first segment is never checked).
Continuities(n) == {c \in [1..n -> BOOLEAN] : c[1]}

DirectInit ==
    /\ HLSInit
    /\ pool = NoPool
    /\ call = NoCall
    /\ \E f \in Formats, rf \in RecordFormats, n \in 1..MaxSegs, au \in BOOLEAN,
          st \in BOOLEAN, dr \in DurationRaws, cf \in BOOLEAN,
          fr \in {"found", "none", "error"} :
         \E c \in Continuities(n) :
            direct = [NoDirect EXCEPT !.pc = "auth", !.format = f, !.recordFormat = rf,
                                      !.nsegs = n, !.cont = c, !.auth = au, !.startOk = st,
                                      !.durRaw = dr, !.confOk = cf, !.findRes = fr]

DirectFrame == UNCHANGED <<mainVars, ffmpegSem, pool>>

DFail(e) == direct' = [direct EXCEPT !.err = e, !.pc = "error"]

\* s.writeError(ctx, status, err); return
DWriteError(e, st) ==
    direct' = [direct EXCEPT !.pc = "done", !.err = e, !.status = st,
                             !.errText = TRUE, !.logged = TRUE]

\* if !s.doAuth(ctx, pathName) { return }: doAuth has answered 401 itself.
DAuth ==
    /\ direct.pc = "auth"
    /\ direct' = IF direct.auth THEN [direct EXCEPT !.pc = "start"]
                 ELSE [direct EXCEPT !.pc = "done", !.status = 401]
    /\ DirectFrame

\* start, err := time.Parse(time.RFC3339, startStr)
DParseStart ==
    /\ direct.pc = "start"
    /\ IF direct.startOk THEN direct' = [direct EXCEPT !.pc = "duration"]
       ELSE DWriteError("start", 400)
    /\ DirectFrame

\* duration, err := parseDuration(ctx.Query("duration"))
DParseDuration ==
    /\ direct.pc = "duration"
    /\ IF parseDuration(direct.durRaw).ok
       THEN direct' = [direct EXCEPT !.pc = "conf", !.duration = parseDuration(direct.durRaw).d]
       ELSE DWriteError("duration", 400)
    /\ DirectFrame

\* pathConf, err := s.safeFindPathConf(pathName)
DFindPathConf ==
    /\ direct.pc = "conf"
    /\ IF direct.confOk THEN direct' = [direct EXCEPT !.pc = "find"]
       ELSE DWriteError("conf", 400)
    /\ DirectFrame

\* segments, err := recordstore.FindSegments(pathConf, pathName, &start, &end)
DFindSegments ==
    /\ direct.pc = "find"
    /\ direct' =
         IF direct.findRes = "found" THEN [direct EXCEPT !.pc = "format", !.findCalled = TRUE]
         ELSE [direct EXCEPT !.pc = "done", !.findCalled = TRUE,
                             !.err = IF direct.findRes = "none" THEN "nosegments" ELSE "find",
                             !.status = IF direct.findRes = "none" THEN 404 ELSE 400,
                             !.errText = TRUE, !.logged = TRUE]
    /\ DirectFrame

\* A format switch whose default case falls back to the fMP4 muxer.
DSelectFormatDefaultsToFMP4 ==
    /\ direct.pc = "format"
    /\ direct' =
         IF direct.format = "hls" THEN [direct EXCEPT !.pc = "hls"]
         ELSE [direct EXCEPT !.pc = "seek"]
    /\ DirectFrame

\* format == "hls" goes to handleHLS; "", "fmp4", "mp4" get a muxer on a fresh
\* writerWrapper; anything else is answered 400 "invalid format".
DSelectFormat ==
    /\ direct.pc = "format"
    /\ direct' =
         IF direct.format = "hls" THEN [direct EXCEPT !.pc = "hls"]
         ELSE IF direct.format \in {"", "fmp4", "mp4"} THEN [direct EXCEPT !.pc = "seek"]
         ELSE [direct EXCEPT !.pc = "done", !.err = "format", !.status = 400,
                             !.errText = TRUE, !.logged = TRUE]
    /\ DirectFrame

\* A seekAndMux that opens the first segment whatever the record format is.
DSeekEntryUnchecked ==
    /\ direct.pc = "seek"
    /\ direct' = [direct EXCEPT !.pc = "open", !.seg = 1]
    /\ DirectFrame

\* if recordFormat == conf.RecordFormatFMP4 {...}; else "MPEG-TS format is not supported yet"
DSeekEntry ==
    /\ direct.pc = "seek"
    /\ IF direct.recordFormat = "fmp4"
       THEN direct' = [direct EXCEPT !.pc = "open", !.seg = 1]
       ELSE DFail("unsupported")
    /\ DirectFrame

\* os.Open(segment.Fpath)
DOpen ==
    /\ direct.pc = "open"
    /\ \/ direct' = [direct EXCEPT !.pc = "header", !.opened = @ + 1]
       \/ DFail("open")
    /\ DirectFrame

\* segmentFMP4ReadHeader(f); for the first segment m.writeInit(firstInit) follows.
DReadHeader ==
    /\ direct.pc = "header"
    /\ \/ direct' = IF direct.seg = 1
                    THEN [direct EXCEPT !.pc = "mux", !.nInit = @ + 1, !.initSeg = direct.seg]
                    ELSE [direct EXCEPT !.pc = "concat"]
       \/ DFail("header")
    /\ DirectFrame

\* A loop that muxes the segment whatever the continuity check says.
DCanConcatIgnored ==
    /\ direct.pc = "concat"
    /\ direct' = [direct EXCEPT !.pc = "mux"]
    /\ DirectFrame

\* if !segmentFMP4CanBeConcatenated(...) { break }
DCanConcat ==
    /\ direct.pc = "concat"
    /\ direct' = IF direct.cont[direct.seg]
                 THEN [direct EXCEPT !.pc = "mux"]
                 ELSE [direct EXCEPT !.pc = "flush"]
    /\ DirectFrame

\* writerWrapper.Write: the first call sets written and the headers, then the
\* bytes go to ctx.Writer (which commits status 200); the write succeeds, fails
\* with a *net.OpError (the client is gone) or fails with another error.
DWrite ==
    /\ direct.pc \in {"mux", "flushing"}
    /\ \/ /\ direct.bytes < MaxChunks
          /\ direct' = [direct EXCEPT !.written = TRUE, !.status = 200, !.bytes = @ + 1]
       \/ \E e \in {"net", "write"} :
            direct' = [direct EXCEPT !.written = TRUE, !.status = 200, !.err = e,
                                     !.pc = "error"]
    /\ DirectFrame

\* A segmentFMP4MuxParts whose error path flushes the muxer before returning.
DMuxPartsFlushOnError ==
    /\ direct.pc = "mux"
    /\ \/ direct' = [direct EXCEPT !.muxed = @ + 1,
                                   !.seg = IF direct.seg < direct.nsegs THEN @ + 1 ELSE @,
                                   !.pc = IF direct.seg < direct.nsegs THEN "open" ELSE "flush"]
       \/ \E e \in {"mux", "nosegments"} :
            direct' = [direct EXCEPT !.err = e, !.pc = "error", !.nFlush = @ + 1]
    /\ DirectFrame

\* segmentFMP4MuxParts returned: the next segment is opened, or the loop ends.
DMuxParts ==
    /\ direct.pc = "mux"
    /\ \/ direct' = [direct EXCEPT !.muxed = @ + 1,
                                   !.seg = IF direct.seg < direct.nsegs THEN @ + 1 ELSE @,
                                   !.pc = IF direct.seg < direct.nsegs THEN "open" ELSE "flush"]
       \/ \E e \in {"mux", "nosegments"} : DFail(e)
    /\ DirectFrame

\* err = m.flush() is called
DFlush ==
    /\ direct.pc = "flush"
    /\ direct' = [direct EXCEPT !.nFlush = @ + 1, !.pc = "flushing"]
    /\ DirectFrame

\* m.flush() returns: nil (seekAndMux returns nil) or an error
DFlushReturn ==
    /\ direct.pc = "flushing"
    /\ \/ direct' = [direct EXCEPT !.pc = "done", !.muxOk = TRUE]
       \/ DFail("flush")
    /\ DirectFrame

\* if err != nil {...} after seekAndMux in onGet
DHandleError ==
    /\ direct.pc = "error"
    /\ LET out == OnGetError(direct.err, direct.written)
       IN  direct' = [direct EXCEPT !.pc = "done",
                                    !.status = IF out.status # 0 THEN out.status ELSE @,
                                    !.errText = out.errText,
                                    !.logged = out.logged]
    /\ DirectFrame

DirectNext ==
    \/ DAuth
    \/ DParseStart
    \/ DParseDuration
    \/ DFindPathConf
    \/ DFindSegments
    \/ DSelectFormat
    \/ DSeekEntry
    \/ DOpen
    \/ DReadHeader
    \/ DCanConcat
    \/ DWrite
    \/ DMuxParts
    \/ DFlush
    \/ DFlushReturn
    \/ DHandleError

DirectSpec == DirectInit /\ [][DirectNext]_vars

\* ------------------------------------------------------------ token model
\* computeToken applied to two parameter tuples. Start times carry seconds and
\* nanoseconds (time.Parse with the RFC3339 layout accepts a fractional second).

TokenClients == {<<1>>, <<1, 1>>}

TokenPaths == {<<2>>, <<1, 2>>}

TokenStarts == {[sec |-> 0, nsec |-> 0], [sec |-> 0, nsec |-> 5], [sec |-> 1, nsec |-> 0]}

TokenDurations == 1..MaxDuration

TokenInputs ==
    [client : TokenClients, path : TokenPaths, start : TokenStarts, duration : TokenDurations]

CallFrame == UNCHANGED <<reqVars, jobVars, sharedVars, fsVars, pool, direct>>

TokenInit ==
    /\ HLSInit
    /\ pool = NoPool
    /\ direct = NoDirect
    /\ \E a \in TokenInputs, b \in TokenInputs :
         call = [fn |-> "computeToken", pc |-> "in", a |-> a, b |-> b,
                 ta |-> <<>>, tb |-> <<>>, again |-> <<>>]

\* token := computeToken(clientIP, pathName, start, duration), for both tuples
\* and once more for the first.
TokenCompute ==
    /\ call.fn = "computeToken" /\ call.pc = "in"
    /\ call' = [call EXCEPT !.pc = "out",
                            !.ta = TokenOfParams(call.a),
                            !.tb = TokenOfParams(call.b),
                            !.again = TokenOfParams(call.a)]
    /\ CallFrame

TokenNext == TokenCompute

TokenSpec == TokenInit /\ [][TokenNext]_vars

\* ------------------------------------------------------------ manifest rewriter model
\* servePlaylist applied to a manifest text and a request URL. The text is a
\* sequence of characters: "#", "M" (standing for the letters EXTM3U), the line
\* feed, the space and "a" (any other character). The URL is its set of query
\* keys: "d" (duration), "f" (file), "p" (path).

ManifestChars == {"#", "M", "\n", " ", "a"}

Manifests == UNION {[1..n -> ManifestChars] : n \in 0..MaxManifestLen}

Signature == <<"#", "M">>

RequestQueries == {{"d", "p"}, {"d", "f", "p"}}

\* strings.HasPrefix(s, prefix)
HasPrefix(str, prefix) ==
    Len(str) >= Len(prefix) /\ SubSeq(str, 1, Len(prefix)) = prefix

\* strings.Split(s, "\n")
RECURSIVE SplitLines(_)
SplitLines(str) ==
    IF \A i \in 1..Len(str) : str[i] # "\n" THEN <<str>>
    ELSE LET i == CHOOSE k \in 1..Len(str) :
                      str[k] = "\n" /\ \A m \in 1..(k - 1) : str[m] # "\n"
         IN  <<SubSeq(str, 1, i - 1)>> \o SplitLines(SubSeq(str, i + 1, Len(str)))

\* strings.Join(lines, "\n")
RECURSIVE JoinLines(_)
JoinLines(lines) ==
    IF lines = <<>> THEN <<>>
    ELSE IF Len(lines) = 1 THEN lines[1]
    ELSE lines[1] \o <<"\n">> \o JoinLines(Tail(lines))

\* strings.TrimSpace(line) == ""
IsBlank(line) == \A i \in 1..Len(line) : line[i] = " "

\* url.QueryEscape(line): a space becomes "+", "#" becomes "%23", letters stay.
RECURSIVE QueryEscape(_)
QueryEscape(line) ==
    IF line = <<>> THEN <<>>
    ELSE (IF line[1] = " " THEN <<"+">>
          ELSE IF line[1] = "#" THEN <<"%", "2", "3">>
          ELSE <<line[1]>>) \o QueryEscape(Tail(line))

\* q.Del("file"); baseURL.RawQuery = q.Encode() (keys in sorted order);
\* baseURLStr := baseURL.String()
BaseURLString(query) ==
    <<"/", "?">> \o (IF "d" \in query THEN <<"d", "&">> ELSE <<>>) \o <<"p">>

\* fmt.Sprintf("%s&file=%s", baseURLStr, url.QueryEscape(line))
SegmentURL(query, line) == BaseURLString(query) \o <<"&", "f", "=">> \o QueryEscape(line)

NoManifest == [status |-> 500, manifest |-> FALSE, body |-> <<>>]

\* A rewriter that leaves the blank lines out of its output.
servePlaylistDropsBlank(content, query) ==
    IF ~HasPrefix(content, Signature) THEN NoManifest
    ELSE LET lines == SelectSeq(SplitLines(content), LAMBDA l : ~IsBlank(l))
         IN  [status |-> 200, manifest |-> TRUE,
              body |-> JoinLines([i \in 1..Len(lines) |->
                          IF HasPrefix(lines[i], <<"#">>)
                          THEN lines[i]
                          ELSE SegmentURL(query, lines[i])])]

\* servePlaylist: 500 "invalid playlist generated" unless the text has the
\* prefix #EXTM3U; else every line that neither starts with "#" nor is blank is
\* replaced by its URL, and the lines are joined again and sent with status 200.
servePlaylist(content, query) ==
    IF ~HasPrefix(content, Signature) THEN NoManifest
    ELSE LET lines == SplitLines(content)
         IN  [status |-> 200, manifest |-> TRUE,
              body |-> JoinLines([i \in 1..Len(lines) |->
                          IF HasPrefix(lines[i], <<"#">>) \/ IsBlank(lines[i])
                          THEN lines[i]
                          ELSE SegmentURL(query, lines[i])])]

RewriteInit ==
    /\ HLSInit
    /\ pool = NoPool
    /\ direct = NoDirect
    /\ \E c \in Manifests, q \in RequestQueries :
         call = [fn |-> "servePlaylist", pc |-> "in", content |-> c, query |-> q,
                 out |-> NoManifest]

\* s.servePlaylist(ctx, string(playlistData))
ServePlaylist ==
    /\ call.fn = "servePlaylist" /\ call.pc = "in"
    /\ call' = [call EXCEPT !.pc = "out", !.out = servePlaylist(call.content, call.query)]
    /\ CallFrame

RewriteNext == ServePlaylist

RewriteSpec == RewriteInit /\ [][RewriteNext]_vars

\* ------------------------------------------------------------ file selector model
\* handleHLS called with a file selector. A path is its sequence of components;
\* the selector is split at its separators. The token is one component.

SelectorParts == {"seg", "..", ".", "sub"}

Selectors == UNION {[1..n -> SelectorParts] : n \in 0..MaxSelectorLen}

\* hlsDir := filepath.Join(".", "mediamtx_hls", token)
HlsDirParts == <<".", "mediamtx_hls", "token">>

\* filepath.Clean on components: "." is dropped, ".." removes the component
\* before it, or stays when there is none to remove.
RECURSIVE Clean(_)
Clean(parts) ==
    IF parts = <<>> THEN <<>>
    ELSE LET init == Clean(SubSeq(parts, 1, Len(parts) - 1))
             last == parts[Len(parts)]
         IN  IF last = "." THEN init
             ELSE IF last = ".." /\ init # <<>> /\ init[Len(init)] # ".."
                  THEN SubSeq(init, 1, Len(init) - 1)
             ELSE Append(init, last)

\* filepath.Join(elem...)
PathJoin(a, b) == Clean(a \o b)

FileInit ==
    /\ HLSInit
    /\ pool = NoPool
    /\ direct = NoDirect
    /\ \E sel \in Selectors :
         call = [fn |-> "file", pc |-> "in", selector |-> sel, served |-> <<>>,
                 lookup |-> FALSE]

\* if segFile := ctx.Query("file"); segFile != "" {
\*     ctx.File(filepath.Join(hlsDir, segFile)); return }
\* else the handler goes on to the registry.
ServeFile ==
    /\ call.fn = "file" /\ call.pc = "in"
    /\ call' = IF call.selector # <<>>
               THEN [call EXCEPT !.pc = "out",
                                 !.served = PathJoin(Clean(HlsDirParts), call.selector)]
               ELSE [call EXCEPT !.pc = "registry", !.lookup = TRUE]
    /\ CallFrame

FileNext == ServeFile

FileSpec == FileInit /\ [][FileNext]_vars

\* ------------------------------------------------------------ DELETE /hls model
\* The HLS coordinator with two requests, and one DELETE /hls request handled
\* by Server.deleteHLSDir at any moment.

DelReqs == 1..NDelReq

\* deleteHLSDir: 400 when a parameter is missing or does not parse; else the
\* token is computed from the client and the parameters; 404 when os.Stat finds
\* no directory; else os.RemoveAll(hlsDir) removes the directory with the files
\* in it (200), or fails (500). The registry is not consulted.
DeleteHLSDir ==
    /\ call = NoCall
    /\ \E p \in Params, valid \in BOOLEAN :
         LET t == TokenOfParams(p)
         IN  \/ /\ ~valid
                /\ call' = [fn |-> "delete", token |-> t, status |-> 400]
                /\ UNCHANGED fsVars
             \/ /\ valid /\ t \notin hlsDirs
                /\ call' = [fn |-> "delete", token |-> t, status |-> 404]
                /\ UNCHANGED fsVars
             \/ /\ valid /\ t \in hlsDirs
                /\ call' = [fn |-> "delete", token |-> t, status |-> 200]
                /\ hlsDirs' = hlsDirs \ {t}
                /\ playlist' = [playlist EXCEPT ![t] = NoPlaylist]
             \/ /\ valid /\ t \in hlsDirs
                /\ call' = [fn |-> "delete", token |-> t, status |-> 500]
                /\ UNCHANGED fsVars
    /\ UNCHANGED <<reqVars, jobVars, sharedVars, pool, direct>>

DeleteNext ==
    \/ /\ \E r \in DelReqs :
            \/ LockRegistry(r)
            \/ Join(r)
            \/ Register(r)
            \/ WaiterObserveDone(r)
            \/ WaiterServe(r)
            \/ WaiterDetach(r)
            \/ Cancel(r)
            \/ Setup(r)
            \/ PreMux(r)
            \/ OwnerRecv(r)
            \/ OwnerServe(r)
            \/ SemAcquire(r)
            \/ CmdStart(r)
            \/ TrackPid(r)
            \/ TrackPidUnlock(r)
            \/ Cleanup(r)
            \/ CleanupUnlock(r)
            \/ CloseDone(r)
            \/ SendErr(r)
            \/ FfmpegWrite(r)
            \/ FfmpegExit(r)
            \/ DeadlineKill(r)
       /\ UNCHANGED <<pool, direct, call>>
    \/ DeleteHLSDir

DeleteSpec == Init /\ [][DeleteNext]_vars

\* ------------------------------------------------------------ derived notions

\* The registry maps the job's client and token to this job.
Registered(j) ==
    /\ par[j].client \in DOMAIN activeHLSTokens
    /\ token(j) \in DOMAIN activeHLSTokens[par[j].client]
    /\ activeHLSTokens[par[j].client][token(j)] = j

\* The task of job j has run its cleanup (which follows cmd.Wait).
Evicted(j) == task[j] \in {"evictunlock", "close", "send"} \/ (task[j] = "end" /\ proc[j] # "startfail")

\* Job j is writing into its output directory: the handler muxes into
\* trimmed.mp4, or ffmpeg runs.
Writing(j) == pc[j] = "premux" \/ proc[j] = "running"

\* The job failed: ffmpeg did not start, exited with an error, or was killed.
JobFailed(j) == proc[j] \in {"startfail", "failed", "killed"}

\* ------------------------------------------------------------------ claims

\* C1 (as stated): at every moment at most one encoder subprocess is running
\* for a given token: two distinct jobs whose subprocesses run have distinct tokens.
C1_OneSubprocessPerToken ==
    \A a, b \in Reqs :
        (a # b /\ proc[a] = "running" /\ proc[b] = "running") => token(a) # token(b)

C3_WaitersShareOutcome ==
    \A w \in Reqs :
        (role[w] = "waiter" /\ pc[w] = "done" /\ resp[w].status # 0) =>
            /\ JobFailed(job[w]) => resp[w].status # 200
            /\ resp[job[w]].status = 200 => resp[w] = resp[job[w]]

\* C4 (as stated): once the owner's handler has ended, whatever failed, the job
\* is no longer in the registry and its completion signal is closed.
C4_EndedJobEvictedAndSignalled ==
    \A j \in Reqs :
        (role[j] = "owner" /\ pc[j] = "done") =>
            (~Registered(j) /\ doneChan[j] = "closed")

\* C5 (as stated): after a job has completed successfully, no subprocess is
\* started again for a request with the same parameters.
C5_NoRerunAfterSuccess ==
    \A a, b \in Reqs :
        (a # b /\ par[a] = par[b] /\ proc[a] = "ok") => proc[b] # "running"

\* C6 (as stated, for jobs of the waiter's own client and parameters): from the
\* moment a waiter has observed the completion signal until it has read the
\* manifest, no job writes into the output directory.
C6_NoWriterWhileWaiterReads ==
    \A w, j \in Reqs :
        (role[w] = "waiter" /\ pc[w] = "read" /\ role[j] = "owner" /\ par[j] = par[w])
            => ~Writing(j)

\* C8: a step in which a request is cancelled, or in which a waiter returns from
\* its wait without having observed the signal, changes nothing of any job, of
\* the registry, the lock, the semaphore or the output directories, and writes no
\* response; and an owner leaves its wait only with the outcome its task sent.
C8_CancelLeavesJobAlone ==
    [][\A r \in Reqs :
          /\ (cancelled'[r] /\ ~cancelled[r]) =>
                 UNCHANGED <<pc, resp, jobVars, sharedVars, fsVars>>
          /\ (pc[r] = "wait" /\ pc'[r] = "done") =>
                 (resp'[r] = NoResp /\ UNCHANGED <<resp, jobVars, sharedVars, fsVars>>)
          /\ (pc[r] = "recv" /\ pc'[r] # "recv") => errChan[r] \in {"nil", "err"}
      ]_vars

\* C8 witness: a cancelled waiter has returned without a response while the
\* subprocess of its job is still running.
C8_Witness ==
    \E w \in Reqs :
        /\ role[w] = "waiter" /\ cancelled[w] /\ pc[w] = "done" /\ resp[w] = NoResp
        /\ proc[job[w]] = "running" /\ Registered(job[w]) /\ doneChan[job[w]] = "open"

\* C9 (as stated, in the form a finite run refutes): once the background task
\* of a job has returned, the registry entry has been removed and the completion
\* signal is closed, so no waiter of the job stays blocked.
C9_ReturnedTaskReleasedWaiters ==
    \A j \in Reqs :
        task[j] = "end" => (doneChan[j] = "closed" /\ ~Registered(j))

\* C7: at every moment the number of encoder subprocesses that have been
\* started and have not yet exited is at most the capacity of the semaphore.
C7_SubprocessesWithinCapacity == pool.running <= 16

\* C7 witness: the semaphore is full of running subprocesses and a further
\* task is blocked on it.
C7_Witness == pool.running = ffmpegSemCap /\ pool.waiting > 0

\* C10: in the direct path, once Write has been called no error status or text
\* is written (a later error is logged only); an error before the first Write
\* is answered with an error response, 404 for no segments and 400 otherwise;
\* and a client-abort network error is neither answered nor logged.
C10_NoErrorTextAfterFirstByte ==
    /\ direct.written => (~direct.errText /\ direct.status \in {0, 200})
    /\ (direct.pc = "done" /\ direct.err \notin {"none", "net"} /\ ~direct.written) =>
           /\ direct.errText
           /\ direct.status = IF direct.err = "nosegments" THEN 404 ELSE 400
    /\ (direct.pc = "done" /\ direct.err \notin {"none", "net"} /\ direct.written) =>
           direct.logged
    /\ direct.err = "net" => (~direct.errText /\ ~direct.logged)

\* C10 witness: a mux error after bytes were written has been handled: it is
\* logged and the response carries no error text.
C10_Witness ==
    /\ direct.pc = "done" /\ direct.err = "mux" /\ direct.written /\ direct.bytes > 0
    /\ direct.logged /\ ~direct.errText /\ direct.status = 200

\* C19: the completion signal of a job is closed only after its subprocess has
\* exited and only after its registry entry was removed, and a subprocess exists
\* only after the output directory and the input file were set up: in every
\* state where a job's signal is closed the registry holds no entry for that job.
C19_SignalClosedAfterExitAndEviction ==
    \A j \in Reqs :
        /\ doneChan[j] = "closed" =>
               (proc[j] \in {"ok", "failed", "killed"} /\ ~Registered(j))
        /\ proc[j] # "none" =>
               (token(j) \in hlsDirs /\ pc[j] \in {"recv", "read", "done"} /\ task[j] # "none")

\* C19 witness: the signal of a job whose subprocess exited is closed, the job
\* is out of the registry, and a waiter of it has not yet observed the signal.
C19_Witness ==
    \E j, w \in Reqs :
        /\ doneChan[j] = "closed" /\ proc[j] = "ok" /\ ~Registered(j)
        /\ role[w] = "waiter" /\ job[w] = j /\ pc[w] = "wait"

\* The step that releases the lock, for whoever holds it.
Unlocking ==
    \E r \in Reqs : Join(r) \/ Register(r) \/ TrackPidUnlock(r) \/ CleanupUnlock(r)

\* C20: the registry lock is never held by a handler or task that is blocked:
\* not by a task at the semaphore, at cmd.Start or in cmd.Wait, not by a handler
\* waiting on a completion signal or on its task, and not during file I/O; its
\* holder can always take the step that releases it, so a request for another
\* key gets the lock whatever the semaphore holds; and the registry maps and a
\* job's pid change only in steps taken with the lock held.
C20_LockNeverHeldWhileBlocked ==
    /\ [](/\ \A r \in Reqs :
              /\ pc[r] \in {"wait", "setup", "premux", "recv", "read", "done"}
                     => activeHLSLock # r
              /\ task[r] \in {"sem", "start", "setpid", "wait", "close", "send", "end"}
                     => activeHLSLock # NReq + r
          /\ activeHLSLock # 0 => ENABLED Unlocking)
    /\ [][(activeHLSTokens' # activeHLSTokens \/ pid' # pid)
              => (activeHLSLock # 0 \/ activeHLSLock' # 0)]_vars

\* C20 witness: a handler holds the lock for its lookup while the task of a job
\* with other parameters waits for a slot, starts ffmpeg or waits for it.
C20_Witness ==
    \E a, b \in Reqs :
        /\ a # b /\ par[a] # par[b]
        /\ task[a] \in {"sem", "start", "wait"}
        /\ activeHLSLock = b /\ pc[b] = "branch"

\* The request passes everything onGet checks before it looks at the format.
PreludePasses ==
    /\ direct.auth /\ direct.startOk /\ parseDuration(direct.durRaw).ok
    /\ direct.confOk /\ direct.findRes = "found"

FormatInvalid == direct.format \notin {"", "fmp4", "mp4", "hls"}

NoMediaTouched ==
    /\ ~direct.written /\ direct.bytes = 0 /\ direct.opened = 0
    /\ direct.nInit = 0 /\ direct.muxed = 0 /\ direct.nFlush = 0

\* C11 (as stated): every authenticated GET request whose format is none of
\* fmp4, mp4, hls or absent is answered 400 naming the invalid format, with no
\* media written and no segment opened, whatever its other parameters and the
\* stored segments are.
C11_InvalidFormatAlwaysNamed ==
    (direct.auth /\ FormatInvalid /\ direct.pc = "done") =>
        (direct.status = 400 /\ direct.err = "format" /\ NoMediaTouched)

\* C11 (amended): a GET request whose format is none of fmp4, mp4, hls or absent
\* never gets media written or a segment opened and ends with a client error;
\* the error is 400 naming the invalid format when the request passes
\* authentication, the parsing of start and duration, the path lookup and the
\* segment lookup, which onGet all performs before it looks at the format.
C11_InvalidFormatRejected ==
    FormatInvalid =>
        /\ NoMediaTouched
        /\ direct.pc \notin {"seek", "hls"}
        /\ direct.pc = "done" =>
               /\ direct.status \in {400, 401, 404}
               /\ PreludePasses =>
                      (direct.status = 400 /\ direct.err = "format" /\ direct.errText)
               /\ direct.err = "format" => PreludePasses

\* C11 witness: a request with format xyz that passed every earlier check and
\* whose segments were found has been answered 400 for its format.
C11_Witness ==
    /\ direct.format = "xyz" /\ PreludePasses /\ direct.findCalled
    /\ direct.pc = "done" /\ direct.status = 400 /\ direct.err = "format"

\* C12 (as stated): an authenticated request whose start does not parse, or
\* whose duration does not parse or parses to a negative time span, is answered
\* 400 before the segment lookup is called and before any file is opened.
C12_BadStartOrDurationRejectedBeforeIO ==
    (/\ direct.auth
     /\ \/ ~direct.startOk
        \/ ~parseDuration(direct.durRaw).ok
        \/ parseDuration(direct.durRaw).d < 0)
        => /\ ~direct.findCalled
           /\ direct.opened = 0
           /\ direct.pc \in {"auth", "start", "duration", "done"}
           /\ direct.pc = "done" => direct.status = 400

\* The number of leading segments that seekAndMux should consume: the longest
\* prefix in which every segment after the first passes the continuity check.
ContinuousPrefix ==
    CHOOSE k \in 1..direct.nsegs :
        /\ \A i \in 2..k : direct.cont[i]
        /\ k = direct.nsegs \/ ~direct.cont[k + 1]

\* C16: a run of seekAndMux that returns nil has muxed exactly the longest
\* continuous prefix of the segment list and flushed once; it never muxes past
\* that prefix and opens at most the one segment that failed the check; and once
\* the check has returned false nothing is opened or muxed any more and the run
\* fails only if the flush or a write of the flush fails.
C16_LongestContinuousPrefix ==
    /\ [](direct.nsegs > 0 =>
            /\ direct.muxed <= ContinuousPrefix
            /\ direct.opened <= ContinuousPrefix + 1 /\ direct.opened <= direct.nsegs
            /\ direct.muxOk =>
                   /\ direct.muxed = ContinuousPrefix
                   /\ direct.opened =
                          IF ContinuousPrefix < direct.nsegs THEN ContinuousPrefix + 1
                          ELSE ContinuousPrefix
                   /\ direct.nFlush = 1 /\ direct.err = "none")
    /\ [][(direct.pc = "concat" /\ ~direct.cont[direct.seg]) =>
              (direct'.pc = "flush" /\ direct'.err = "none")]_vars
    /\ [][direct.pc \in {"flush", "flushing"} =>
              (direct'.opened = direct.opened /\ direct'.muxed = direct.muxed
               /\ direct'.err \in {"none", "flush", "net", "write"})]_vars

\* C16 witness: three segments, the second fails the check (the third would
\* pass): the run returned nil with the first segment muxed only, two files
\* opened and one flush.
C16_Witness ==
    /\ direct.nsegs = 3 /\ ~direct.cont[2] /\ direct.cont[3]
    /\ direct.muxOk /\ direct.pc = "done" /\ direct.err = "none"
    /\ direct.muxed = 1 /\ direct.opened = 2 /\ direct.nFlush = 1

\* C17: writeInit is called at most once, with the header of the first
\* segment, and has been called exactly once before any media span is muxed;
\* a run that returns nil has called flush exactly once, after the last span;
\* an open, header or mux error (and the unsupported-format error) ends the run
\* with no flush and no further open or mux; a flush error reaches the caller.
C17_MuxerProtocol ==
    /\ [](/\ direct.nInit <= 1 /\ direct.nFlush <= 1
          /\ direct.nInit = 1 => direct.initSeg = 1
          /\ (direct.muxed > 0 \/ direct.pc \in {"mux", "concat", "flush", "flushing"}
                 \/ direct.seg > 1)
                 => direct.nInit = 1
          /\ direct.muxOk => (direct.nInit = 1 /\ direct.nFlush = 1)
          /\ direct.err \in {"open", "header", "mux", "nosegments", "unsupported"}
                 => direct.nFlush = 0
          /\ direct.err = "flush" => (direct.nFlush = 1 /\ direct.pc \in {"error", "done"}))
    /\ [][direct.nFlush = 1 =>
              (direct'.muxed = direct.muxed /\ direct'.nInit = direct.nInit
               /\ direct'.nFlush = 1)]_vars
    /\ [][direct.err # "none" =>
              (direct'.muxed = direct.muxed /\ direct'.opened = direct.opened
               /\ direct'.nInit = direct.nInit /\ direct'.nFlush = direct.nFlush
               /\ direct'.err = direct.err)]_vars

\* C17 witness: the mux of the second segment failed after the first was muxed,
\* the error was handled, and flush was never called.
C17_Witness ==
    /\ direct.pc = "done" /\ direct.err = "mux" /\ direct.muxed = 1 /\ direct.seg = 2
    /\ direct.nInit = 1 /\ direct.nFlush = 0

\* C18: when the stored recording format is not fMP4, seekAndMux opens no
\* segment and calls no muxer operation, writes nothing, and returns the
\* unsupported-format error, whatever the segments, start and duration are.
C18_UnsupportedBeforeAnyIO ==
    direct.recordFormat # "fmp4" =>
        /\ direct.opened = 0 /\ direct.nInit = 0 /\ direct.muxed = 0 /\ direct.nFlush = 0
        /\ direct.bytes = 0 /\ ~direct.written /\ ~direct.muxOk
        /\ direct.pc \notin {"open", "header", "concat", "mux", "flush", "flushing"}
        /\ direct.pc = "error" => direct.err = "unsupported"
        /\ (direct.pc = "done" /\ PreludePasses /\ direct.format \in {"", "fmp4", "mp4"})
               => (direct.err = "unsupported" /\ direct.status = 400)

\* C18 witness: an mp4 request on MPEG-TS recordings with several segments was
\* answered with the unsupported-format error.
C18_Witness ==
    /\ direct.recordFormat = "mpegts" /\ direct.format = "mp4" /\ direct.nsegs > 1
    /\ direct.pc = "done" /\ direct.err = "unsupported" /\ direct.status = 400

\* The number of components in which two parameter tuples differ.
Differences(a, b) ==
    Cardinality({f \in {"client", "path", "start", "duration"} : a[f] # b[f]})

\* C13 (as stated): repeated calls of computeToken with identical inputs give
\* the same token, and two input tuples that differ in exactly one component
\* get different tokens (the hash being injective on the bytes it is fed).
C13_TokenSeparatesInputs ==
    call.pc = "out" =>
        /\ call.again = call.ta
        /\ call.a = call.b => call.ta = call.tb
        /\ Differences(call.a, call.b) = 1 => call.ta # call.tb

\* The lines that servePlaylist is to rewrite: neither blank nor starting with "#".
IsReference(line) == ~HasPrefix(line, <<"#">>) /\ ~IsBlank(line)

\* C14 (as stated, its last clause): a manifest whose first line is not the
\* signature line #EXTM3U gets an error response and no manifest.
C14_SignatureLineRequired ==
    (call.pc = "out" /\ SplitLines(call.content)[1] # Signature) =>
        (call.out.status = 500 /\ ~call.out.manifest)

\* C14 (amended): a text that does not start with the characters #EXTM3U gets
\* an error response and no manifest; any other text gets a manifest with as
\* many lines in the same order, where every line that is blank or starts with
\* "#" is unchanged and every other line L is <baseURL>&file=<urlencoded L>,
\* baseURL being the request URL without its file parameter.
C14_RewriterLineByLine ==
    call.pc = "out" =>
        IF ~HasPrefix(call.content, Signature)
        THEN call.out.status = 500 /\ ~call.out.manifest
        ELSE /\ call.out.status = 200 /\ call.out.manifest
             /\ LET old == SplitLines(call.content)
                    new == SplitLines(call.out.body)
                    base == BaseURLString(call.query)
                IN  /\ Len(new) = Len(old)
                    /\ \A i \in 1..Len(old) :
                         IF IsReference(old[i])
                         THEN /\ new[i] = base \o <<"&", "f", "=">> \o QueryEscape(old[i])
                              /\ IsReference(new[i])
                              /\ Cardinality({k \in 1..Len(new[i]) : new[i][k] = "f"}) = 1
                              /\ \A k \in 1..Len(new[i]) : new[i][k] \notin {" ", "#"}
                         ELSE new[i] = old[i]

\* C14 witness: a manifest with the signature line and a segment reference was
\* rewritten for a request that carried a file parameter.
C14_Witness ==
    /\ call.pc = "out" /\ call.out.status = 200 /\ "f" \in call.query
    /\ call.content = <<"#", "M", "\n", "a">>
    /\ call.out.body = <<"#", "M", "\n", "/", "?", "d", "&", "p", "&", "f", "=", "a">>

\* The served path is the token's output directory or lies inside it.
InsideHlsDir(path) ==
    /\ Len(path) >= Len(Clean(HlsDirParts))
    /\ SubSeq(path, 1, Len(Clean(HlsDirParts))) = Clean(HlsDirParts)

\* C15 (as stated): for every value of the file selector the served file lies
\* inside the output directory of the request's token, and the handler does no
\* registry lookup.
C15_SelectorStaysInTokenDir ==
    (call.pc = "out" /\ call.selector # <<>>) =>
        (InsideHlsDir(call.served) /\ ~call.lookup)

\* The background task of job j holds a semaphore slot: it has acquired one
\* and has not returned.
HoldsSlot(j) ==
    task[j] \in {"start", "setpid", "pidunlock", "wait", "evictunlock", "close", "send"}

\* C22: in every state the number of held semaphore slots equals the number of
\* background tasks between acquisition and return, whatever path a task took
\* (start failure, exit 0, error exit, kill at the deadline); a step releases a
\* slot exactly when a task returns; the semaphore is empty when no task is
\* between acquisition and return.
C22_SlotsMatchRunningTasks ==
    /\ [](/\ ffmpegSem = Cardinality({j \in Reqs : HoldsSlot(j)})
          /\ (\A j \in Reqs : task[j] \in {"none", "end"}) => ffmpegSem = 0)
    /\ [][\A j \in Reqs :
            (HoldsSlot(j) /\ task'[j] = "end") => ffmpegSem' = ffmpegSem - 1]_vars

\* C22 witness: three tasks have returned, one after a start failure, one after
\* a kill at the deadline and one after an exit of ffmpeg, and no slot is held.
C22_Witness ==
    /\ \A j \in Reqs : task[j] = "end"
    /\ \E a, b, c \in Reqs :
         proc[a] = "startfail" /\ proc[b] = "killed" /\ proc[c] \in {"ok", "failed"}
    /\ ffmpegSem = 0

\* C23: whenever the registry lock is free no per-client map is empty; a step
\* that adds a client map leaves the lock held by the handler that will insert
\* its entry; and the registry is empty whenever every owner's job has gone
\* through its cleanup.
C23_NoEmptyClientMap ==
    /\ [](/\ LockFree => \A c \in DOMAIN activeHLSTokens : DOMAIN activeHLSTokens[c] # {}
          /\ \A c \in DOMAIN activeHLSTokens :
               DOMAIN activeHLSTokens[c] = {} =>
                   \E r \in Reqs : /\ activeHLSLock = r /\ pc[r] = "branch"
                                   /\ par[r].client = c /\ ~found[r]
          /\ (LockFree /\ \A j \in Reqs : role[j] = "owner" => Evicted(j))
               => DOMAIN activeHLSTokens = {})
    /\ [][\A c \in DOMAIN activeHLSTokens' :
            c \notin DOMAIN activeHLSTokens =>
                \E r \in Reqs : activeHLSLock' = r /\ pc'[r] = "branch" /\ ~found'[r]]_vars

\* C23 witness: two jobs of two clients were registered and both have gone
\* through their cleanup: the lock is free and the registry is empty.
C23_Witness ==
    /\ LockFree /\ DOMAIN activeHLSTokens = {}
    /\ \E a, b \in Reqs :
         /\ par[a].client # par[b].client
         /\ role[a] = "owner" /\ role[b] = "owner" /\ Evicted(a) /\ Evicted(b)
         /\ task[a] = "end" /\ task[b] = "end"

\* C24: the background task of a job sends to errChan only when the channel is
\* empty (so the send never blocks), a task that has returned has sent exactly
\* one outcome, which is in the channel until the owner takes it (so the owner's
\* receive can proceed), and the completion signal is closed only by the task of
\* the job, from the open state, once.
C24_OneOutcomeOneClose ==
    /\ [](\A j \in Reqs :
            /\ task[j] = "end" =>
                   (IF pc[j] = "recv" THEN errChan[j] \in {"nil", "err"}
                    ELSE errChan[j] = "empty" /\ pc[j] \in {"read", "done"})
            /\ (task[j] \notin {"none", "end"}) => (errChan[j] = "empty" /\ pc[j] = "recv")
            /\ doneChan[j] = "closed" => task[j] \in {"send", "end"})
    /\ [][\A j \in Reqs :
            /\ (errChan'[j] \in {"nil", "err"} /\ errChan'[j] # errChan[j]) =>
                   (errChan[j] = "empty" /\ task[j] # "end" /\ task'[j] = "end")
            /\ (doneChan'[j] = "closed" /\ doneChan[j] # "closed") =>
                   (doneChan[j] = "open" /\ task[j] = "close")
            /\ doneChan[j] = "closed" => doneChan'[j] = "closed"]_vars

\* C24 witness: the task of a job has closed the signal, sent its outcome and
\* returned, and the owner has not yet received it.
C24_Witness ==
    \E j \in Reqs :
        /\ task[j] = "end" /\ doneChan[j] = "closed" /\ errChan[j] = "nil"
        /\ role[j] = "owner" /\ pc[j] = "recv"

\* C21 (as stated): the output directory of a token exists as long as a job
\* for that token is registered and muxes or transcodes into it, and as long as
\* a waiter of such a job is about to read its manifest: DELETE /hls does not
\* remove it under them.
C21_NoDeleteUnderJob ==
    /\ \A j \in Reqs :
         (Registered(j) /\ (pc[j] = "premux" \/ task[j] \in {"sem", "start"} \/ proc[j] = "running"))
             => token(j) \in hlsDirs
    /\ \A w \in Reqs :
         (role[w] = "waiter" /\ pc[w] = "read") => token(w) \in hlsDirs

=============================================================================
